---- MODULE Spec2Model ----
(***************************************************************************)
(* Model of src/app.js: the Remini enhancement API.  The file holds three  *)
(* revisions of the service:                                               *)
(*   "strict" (lines 1-175)   enhanceImage with validator.isURL, a         *)
(*                            reachability HEAD probe and original_url;    *)
(*   "inline" (lines 177-315) a POST handler with the pipeline inlined;    *)
(*   "shared" (lines 317-459) enhanceImage with new URL() validation.      *)
(* A JavaScript value is a record [t, s]: its type and, for a string, its  *)
(* text as a sequence of tokens (for a number or an array, the tokens of   *)
(* String(value)).  A run of a request handler is atomic between two       *)
(* awaits, so there is one action per event that resumes it.               *)
(***************************************************************************)
EXTENDS Integers, Sequences, FiniteSets, TLC

\* ---- bounds of the model ----
NumRuns == 2
TicksPerTimeout == 2

\* ---- constants of the program ----
timeout == 5000
maxRedirects == 3

Runs == 1..NumRuns
Variants == {"strict", "inline", "shared"}

\* ---- JavaScript values ----
Undefined == [t |-> "undefined", s |-> <<>>]
Str(s) == [t |-> "string", s |-> s]
Num(n) == [t |-> "number", s |-> <<ToString(n)>>]
Arr(s) == [t |-> "array", s |-> s]

IsString(v) == v.t = "string"

\* ToBoolean(v), as used by `!url` and `!enhancedImageUrl`
Truthy(v) ==
  CASE v.t = "undefined" -> FALSE
    [] v.t = "string" -> v.s # <<>>
    [] v.t = "number" -> v.s # <<"0">>
    [] OTHER -> TRUE

\* a || b on strings
OrElse(a, b) == IF a = "" THEN b ELSE a

\* ---- the URLs of the model ----
InUrl(k) == <<"https", "://", "img.example", "/in", ToString(k)>>
OutUrl(k) == <<"https", "://", "cdn.example", "/out", ToString(k)>>
Hosts == {"img.example", "cdn.example"}
Schemes == {"http", "https", "ftp"}
SpecialSchemes == {"http", "https", "ftp"}

NotAUrl == <<"not", " ", "a", " ", "url">>
FtpUrl == <<"ftp", "://", "img.example", "/in", "1">>
HostlessUrl == <<"http", "://">>
Padded(s) == <<" ">> \o s \o <<" ">>

\* ---- validator.trim ----
RECURSIVE TrimLeft(_)
TrimLeft(s) == IF s # <<>> /\ Head(s) = " " THEN TrimLeft(Tail(s)) ELSE s

RECURSIVE TrimRight(_)
TrimRight(s) ==
  IF s # <<>> /\ s[Len(s)] = " " THEN TrimRight(SubSeq(s, 1, Len(s) - 1)) ELSE s

trim(s) == TrimRight(TrimLeft(s))

HasWhitespace(s) == \E i \in 1..Len(s) : s[i] = " "

\* validator.isURL(s, {protocols: ['http','https'], require_protocol,
\* require_valid_protocol, require_host}) on a string: no whitespace anywhere,
\* an http/https protocol, "://", and a host.
isURL(s) ==
  /\ ~HasWhitespace(s)
  /\ Len(s) >= 3
  /\ s[1] \in {"http", "https"}
  /\ s[2] = "://"
  /\ s[3] \in Hosts

\* isValidUrl of the strict revision: validator.isURL throws on a non-string
\* (assertString) and the catch turns that into false.
isValidUrl(v) == IF IsString(v) THEN isURL(v.s) ELSE FALSE

\* isValidUrl of the inline and shared revisions: new URL(String(v)) parses.
\* The URL parser strips leading and trailing spaces, accepts any scheme, and
\* requires a host for the special schemes.
isValidUrlBasic(v) ==
  LET s == trim(v.s) IN
  /\ v.t # "undefined"
  /\ Len(s) >= 2
  /\ s[1] \in Schemes
  /\ s[2] = "://"
  /\ (s[1] \in SpecialSchemes => Len(s) >= 3 /\ s[3] \in Hosts)

\* ---- response headers ----
NoType == <<>>
ImagePng == <<"image/", "png">>
TextHtml == <<"text/", "html">>

NoLength == [kind |-> "absent", n |-> 0]
TextLength == [kind |-> "text", n |-> 0]
Digits(n) == [kind |-> "digits", n |-> n]

\* contentType.startsWith('image/')
StartsWithImage(ct) == ct # <<>> /\ ct[1] = "image/"

\* ---- size label: parseInt(h || '0', 10), (n / 1024).toFixed(2), `${kb} KB` ----
Pad2(n) == IF n < 10 THEN "0" \o ToString(n) ELSE ToString(n)

SizeLabel(h) ==
  IF h.kind = "text" THEN <<"NaN", " KB">>
  ELSE LET bytes == IF h.kind = "absent" THEN 0 ELSE h.n
           hundredths == (bytes * 100 + 512) \div 1024
       IN <<ToString(hundredths \div 100), ".", Pad2(hundredths % 100), " KB">>

Unknown == <<"Unknown">>

\* ---- errors, results, responses ----
Error(message) == [name |-> "Error", message |-> message]
TypeError(message) == [name |-> "TypeError", message |-> message]
NoError == [name |-> "none", message |-> ""]
\* a promise rejected with no reason at all
NoReason == [name |-> "undefined", message |-> ""]

Result(original, data, size) ==
  [original_url |-> original, image_data |-> data, image_size |-> size]
NoResult == Result(Undefined, Undefined, Undefined)

Response(status, error, message, details, body) ==
  [status |-> status, error |-> error, message |-> message,
   details |-> details, body |-> body]
NoResponse == Response(0, "", "", "", NoResult)

\* ---- outbound calls in flight ----
NoCall ==
  [kind |-> "none", url |-> Undefined, timeout |-> 0, maxRedirects |-> 0,
   redirects |-> 0, elapsed |-> 0]

\* axios.head(url, {timeout: 5000, maxRedirects: 3, ...})
AxiosHead(url) ==
  [kind |-> "head", url |-> url, timeout |-> timeout,
   maxRedirects |-> maxRedirects, redirects |-> 0, elapsed |-> 0]

\* remini(url): no options, no timer
ReminiCall(url) ==
  [kind |-> "remini", url |-> url, timeout |-> 0, maxRedirects |-> 0,
   redirects |-> 0, elapsed |-> 0]

\* how an axios.head call settled
Resolved(status, ct, cl) ==
  [settled |-> "resolved", status |-> status, ct |-> ct, cl |-> cl, code |-> ""]
Rejected(code, status) ==
  [settled |-> "rejected", status |-> status, ct |-> NoType, cl |-> NoLength,
   code |-> code]
NoOutcome ==
  [settled |-> "none", status |-> 0, ct |-> NoType, cl |-> NoLength, code |-> ""]

\* how the remini call settled
Fulfilled(value) == [settled |-> "resolved", value |-> value, reason |-> NoError]
Failed(reason) == [settled |-> "rejected", value |-> Undefined, reason |-> reason]
NotSettled == [settled |-> "none", value |-> Undefined, reason |-> NoError]

\* validateStatus of the reachability probe
reachValidateStatusLax(status) == (status >= 200 /\ status < 300) \/ status = 403

reachValidateStatus(status) == status >= 200 /\ status < 300

\* validateStatus of getFileSize in the strict revision
sizeValidateStatus(status) == (status >= 200 /\ status < 300) \/ status = 403

\* axios' default validateStatus (getFileSize of the inline and shared revisions)
defaultValidateStatus(status) == status >= 200 /\ status < 300

\* ---- the state ----
VARIABLES variant, locals

vars == <<variant, locals>>

\* the locals of one request: the handler's and enhanceImage's variables, the
\* call it is suspended on, and a record of what happened to it
Idle ==
  [pc |-> "idle", method |-> "", url |-> Undefined,
   sanitizedUrl |-> Undefined, enhancedImageUrl |-> Undefined,
   call |-> NoCall, steps |-> <<>>,
   reach |-> NoOutcome, provider |-> NotSettled, size |-> NoOutcome,
   thrown |-> NoError, returned |-> NoResult, response |-> NoResponse]

\* every invocation has its own locals
CommitShared(r, l) ==
  [q \in Runs |->
     IF q = r THEN l
     ELSE [locals[q] EXCEPT !.enhancedImageUrl = l.enhancedImageUrl]]

Commit(r, l) == [locals EXCEPT ![r] = l]

Step(l, name) == [l EXCEPT !.steps = Append(@, name)]

\* ---- the route handlers of the strict and shared revisions ----
\* catch (error) { res.status(400).json({error, message}) }
HandlerCatchAs500(error) ==
  Response(500, "ENHANCEMENT_FAILED",
           OrElse(error.message, "An unexpected error occurred"), "", NoResult)

HandlerCatch(error) ==
  Response(400, "ENHANCEMENT_FAILED",
           OrElse(error.message, "An unexpected error occurred"), "", NoResult)

\* res.json(result)
ResJson(result) == Response(200, "", "", "", result)

\* enhanceImage throws: the awaiting handler catches and answers
Rejects(l, error) ==
  [l EXCEPT !.pc = "done", !.call = NoCall, !.thrown = error,
            !.response = HandlerCatch(error)]

\* enhanceImage returns: the awaiting handler answers with the result
Resolves(l, result) ==
  [l EXCEPT !.pc = "done", !.call = NoCall, !.returned = result,
            !.response = ResJson(result)]

\* the inline handler answers directly
Responds(l, response) ==
  [l EXCEPT !.pc = "done", !.call = NoCall, !.response = response]

\* ---- getFileSize ----
getFileSize(o) == IF o.settled = "resolved" THEN SizeLabel(o.cl) ELSE Unknown

\* ---- enhanceImage, strict revision ----
\* from the call to the first await
enhanceImage(l, url) ==
  IF ~Truthy(url)
  THEN Rejects(Step(l, "presence"), Error("URL is required"))
  ELSE IF ~IsString(url)
  THEN Rejects(Step(Step(l, "presence"), "validate"),
               TypeError("Expected a string but received a " \o url.t))
  ELSE LET sanitizedUrl == Str(trim(url.s))
           l2 == [Step(Step(l, "presence"), "validate")
                    EXCEPT !.sanitizedUrl = sanitizedUrl]
       IN IF ~isValidUrl(sanitizedUrl)
          THEN Rejects(l2, Error("Invalid URL format or protocol"))
          ELSE [Step(l2, "reach_probe") EXCEPT
                  !.pc = "reach_probe", !.call = AxiosHead(sanitizedUrl)]

\* the HEAD probe settled with o: the rest of the try block, its catch, and
\* the call of remini
afterReachSwallow(l, o) ==
  [Step(l, "remini") EXCEPT !.pc = "remini", !.call = ReminiCall(l.sanitizedUrl)]

afterReach(l, o) ==
  LET accessError ==
        IF o.settled = "rejected" THEN Error(o.code)
        ELSE IF o.ct = NoType \/ ~StartsWithImage(o.ct)
             THEN Error("URL does not point to a valid image")
             ELSE NoError
  IN IF accessError # NoError
     THEN Rejects(l, Error("Cannot access the specified image"))
     ELSE [Step(l, "remini") EXCEPT
             !.pc = "remini", !.call = ReminiCall(l.sanitizedUrl)]

\* `!enhancedImageUrl || !isValidUrl(enhancedImageUrl)` negated
UsableTruthyOnly(v) == Truthy(v)

Usable(v) == Truthy(v) /\ isValidUrl(v)

\* remini settled with p: the catch, the validation of the result and the
\* call of getFileSize
afterRemini(l, p) ==
  IF p.settled = "rejected"
  THEN Rejects(l, Error("Failed to enhance the image"))
  ELSE LET l2 == [Step(l, "validate_result") EXCEPT !.enhancedImageUrl = p.value]
       IN IF ~Usable(p.value)
          THEN Rejects(l2, Error("Enhanced image URL is invalid"))
          ELSE [Step(l2, "size_probe") EXCEPT
                  !.pc = "size_probe", !.call = AxiosHead(p.value)]

\* getFileSize settled with o: the result is assembled and returned
afterSizeRethrow(l, o) ==
  IF o.settled = "rejected"
  THEN Rejects(l, Error(o.code))
  ELSE Resolves(Step(l, "assemble"),
                Result(l.sanitizedUrl, l.enhancedImageUrl, Str(getFileSize(o))))

afterSize(l, o) ==
  Resolves(Step(l, "assemble"),
           Result(l.sanitizedUrl, l.enhancedImageUrl, Str(getFileSize(o))))

\* ---- enhanceImage, shared revision ----
enhanceImageShared(l, url) ==
  IF ~Truthy(url)
  THEN Rejects(Step(l, "presence"), Error("URL is required"))
  ELSE IF ~isValidUrlBasic(url)
  THEN Rejects(Step(Step(l, "presence"), "validate"), Error("Invalid URL format"))
  ELSE [Step(Step(Step(l, "presence"), "validate"), "remini") EXCEPT
          !.pc = "remini", !.call = ReminiCall(url)]

afterReminiShared(l, p) ==
  IF p.settled = "rejected"
  THEN Rejects(l, Error("Failed to enhance the image"))
  ELSE LET l2 == [Step(l, "validate_result") EXCEPT !.enhancedImageUrl = p.value]
       IN IF ~Truthy(p.value) \/ ~isValidUrlBasic(p.value)
          THEN Rejects(l2, Error("Enhanced image URL is invalid"))
          ELSE [Step(l2, "size_probe") EXCEPT
                  !.pc = "size_probe", !.call = AxiosHead(p.value)]

afterSizeShared(l, o) ==
  Resolves(Step(l, "assemble"),
           Result(Undefined, l.enhancedImageUrl, Str(getFileSize(o))))

\* ---- the POST handler of the inline revision ----
postInline(l, url) ==
  IF ~Truthy(url)
  THEN Responds(Step(l, "presence"),
                Response(400, "URL_REQUIRED",
                         "Please provide an image URL in the request body",
                         "", NoResult))
  ELSE IF ~isValidUrlBasic(url)
  THEN Responds(Step(Step(l, "presence"), "validate"),
                Response(400, "INVALID_URL", "The provided URL is not valid",
                         "", NoResult))
  ELSE [Step(Step(Step(l, "presence"), "validate"), "remini") EXCEPT
          !.pc = "remini", !.call = ReminiCall(url)]

afterReminiInline(l, p) ==
  IF p.settled = "rejected"
  THEN IF p.reason = NoReason
       \* reminiError.message throws inside the catch: the outer catch answers
       THEN Responds(l, Response(500, "UNEXPECTED_ERROR",
                       "An unexpected error occurred during image enhancement",
                       "Cannot read properties of undefined", NoResult))
       ELSE Responds(l, Response(500, "ENHANCEMENT_FAILED",
                       "Failed to enhance the image",
                       OrElse(p.reason.message, "Unknown error occurred"),
                       NoResult))
  ELSE LET l2 == [Step(l, "validate_result") EXCEPT !.enhancedImageUrl = p.value]
       IN IF ~Truthy(p.value) \/ ~isValidUrlBasic(p.value)
          THEN Responds(l2, Response(500, "INVALID_RESULT",
                              "Enhanced image URL is invalid", "", NoResult))
          ELSE [Step(l2, "size_probe") EXCEPT
                  !.pc = "size_probe", !.call = AxiosHead(p.value)]

afterSizeInline(l, o) ==
  Responds(Step(l, "assemble"),
           ResJson(Result(Undefined, l.enhancedImageUrl, Str(getFileSize(o)))))

\* ---- the environment: clients, the network, the provider ----
Methods == {"POST", "GET"}

\* req.body.url / req.query.url
UrlValues(k) ==
  {Undefined, Str(<<>>), Str(<<" ">>), Str(NotAUrl), Str(FtpUrl),
   Str(HostlessUrl), Str(InUrl(k)), Str(Padded(InUrl(k))),
   Num(42), Num(0), Arr(InUrl(k) \o <<",">> \o InUrl(k))}

Statuses == {200, 403, 404}

IsOut(u) == \E k \in Runs : u = Str(OutUrl(k))

\* what the server of a URL sends in its headers
ServedTypes(u) == IF IsOut(u) THEN {ImagePng} ELSE {NoType, ImagePng, TextHtml}

ServedLengths(u) ==
  IF IsOut(u)
  THEN LET k == CHOOSE j \in Runs : u = Str(OutUrl(j))
       IN {NoLength, TextLength, Digits(204800 * k)}
  ELSE {NoLength}

AllTypes == {NoType, ImagePng, TextHtml}
AllLengths == UNION {ServedLengths(Str(OutUrl(k))) : k \in Runs}

ProviderValues(k) == {Str(OutUrl(k)), Str(<<>>), Str(NotAUrl), Undefined, Num(42)}

RejectReasons == {Error("quota exceeded"), Error(""), NoReason}

\* ---- actions ----
\* a request for /enhance-image reaches its handler, which runs to its first await
Request(r, m, url) ==
  /\ locals[r].pc = "idle"
  /\ m = "GET" => variant # "inline" /\ url.t # "number"
  /\ LET l == [locals[r] EXCEPT !.method = m, !.url = url]
     IN locals' = Commit(r, CASE variant = "strict" -> enhanceImage(l, url)
                              [] variant = "shared" -> enhanceImageShared(l, url)
                              [] OTHER -> postInline(l, url))
  /\ UNCHANGED variant

\* express.json() rejects the body: the global error handler answers
MalformedBody(r) ==
  /\ locals[r].pc = "idle"
  /\ locals' = Commit(r, Responds([locals[r] EXCEPT !.method = "POST"],
                   Response(500, "INTERNAL_SERVER_ERROR",
                            "An unexpected server error occurred", "", NoResult)))
  /\ UNCHANGED variant

\* the axios.head call of run r settles with o and the run resumes
Settle(r, o) ==
  LET l == locals[r] IN
  IF l.pc = "reach_probe" THEN afterReach([l EXCEPT !.reach = o], o)
  ELSE LET l2 == [l EXCEPT !.size = o]
       IN CASE variant = "strict" -> afterSize(l2, o)
            [] variant = "shared" -> afterSizeShared(l2, o)
            [] OTHER -> afterSizeInline(l2, o)

validateStatus(r, status) ==
  IF locals[r].pc = "reach_probe" THEN reachValidateStatus(status)
  ELSE IF variant = "strict" THEN sizeValidateStatus(status)
  ELSE defaultValidateStatus(status)

\* the final response to the HEAD request arrives
HeadRespond(r, status, ct, cl) ==
  /\ locals[r].call.kind = "head"
  /\ ct \in ServedTypes(locals[r].call.url)
  /\ cl \in ServedLengths(locals[r].call.url)
  /\ locals' = Commit(r, Settle(r, IF validateStatus(r, status)
                                   THEN Resolved(status, ct, cl)
                                   ELSE Rejected("ERR_BAD_RESPONSE", status)))
  /\ UNCHANGED variant

\* a 3xx response arrives: followed while fewer than maxRedirects were
HeadRedirect(r) ==
  /\ locals[r].call.kind = "head"
  /\ locals' = Commit(r,
       IF locals[r].call.redirects < locals[r].call.maxRedirects
       THEN [locals[r] EXCEPT !.call.redirects = @ + 1]
       ELSE Settle(r, Rejected("ERR_FR_TOO_MANY_REDIRECTS", 302)))
  /\ UNCHANGED variant

\* the connection fails
HeadNetError(r) ==
  /\ locals[r].call.kind = "head"
  /\ locals' = Commit(r, Settle(r, Rejected("ENOTFOUND", 0)))
  /\ UNCHANGED variant

\* the request timer of axios
TimedOutNever(c, elapsed) == FALSE

TimedOut(c, elapsed) == c.timeout > 0 /\ elapsed >= c.timeout

\* time passes while the HEAD request is in flight
HeadTick(r) ==
  /\ locals[r].call.kind = "head"
  /\ LET c == locals[r].call
         e == c.elapsed + (c.timeout \div TicksPerTimeout)
         elapsed == IF e > c.timeout THEN c.timeout ELSE e
     IN locals' = Commit(r,
          IF TimedOut(c, elapsed)
          THEN Settle(r, Rejected("ECONNABORTED", 0))
          ELSE [locals[r] EXCEPT !.call.elapsed = elapsed])
  /\ UNCHANGED variant

\* the remini call of run r settles with p and the run resumes
ReminiSettle(r, p) ==
  LET l == [locals[r] EXCEPT !.provider = p]
  IN CASE variant = "strict" -> afterRemini(l, p)
       [] variant = "shared" -> afterReminiShared(l, p)
       [] OTHER -> afterReminiInline(l, p)

ReminiResolve(r, value) ==
  /\ locals[r].call.kind = "remini"
  /\ locals' = Commit(r, ReminiSettle(r, Fulfilled(value)))
  /\ UNCHANGED variant

ReminiReject(r, reason) ==
  /\ locals[r].call.kind = "remini"
  /\ locals' = Commit(r, ReminiSettle(r, Failed(reason)))
  /\ UNCHANGED variant

\* ---- one request at a time, every revision ----
Init ==
  /\ variant \in Variants
  /\ locals = [r \in Runs |-> Idle]

Next ==
  \/ \E m \in Methods, url \in UrlValues(1) : Request(1, m, url)
  \/ MalformedBody(1)
  \/ \E status \in Statuses, ct \in AllTypes, cl \in AllLengths :
        HeadRespond(1, status, ct, cl)
  \/ HeadRedirect(1)
  \/ HeadNetError(1)
  \/ HeadTick(1)
  \/ \E value \in ProviderValues(1) : ReminiResolve(1, value)
  \/ \E reason \in RejectReasons : ReminiReject(1, reason)

Spec == Init /\ [][Next]_vars

\* the timer of an axios call in flight keeps running
FairSpec == Spec /\ WF_vars(HeadTick(1))

\* ---- concurrent requests to the strict revision ----
ConcInit ==
  /\ variant = "strict"
  /\ locals = [r \in Runs |-> Idle]

ConcNext ==
  \E r \in Runs :
    \/ Request(r, "POST", Str(Padded(InUrl(r))))
    \/ \E status \in {200, 404}, ct \in AllTypes, cl \in AllLengths :
         HeadRespond(r, status, ct, cl)
    \/ HeadRedirect(r)
    \/ HeadTick(r)
    \/ ReminiResolve(r, Str(OutUrl(r)))
    \/ ReminiReject(r, Error("quota exceeded"))

ConcSpec == ConcInit /\ [][ConcNext]_vars

\* ---- sanity ----
TypeOK ==
  /\ variant \in Variants
  /\ \A r \in Runs :
       locals[r].pc \in {"idle", "reach_probe", "remini", "size_probe", "done"}

\* ---- vocabulary of the properties ----
StepOrder ==
  <<"presence", "validate", "reach_probe", "remini", "validate_result",
    "size_probe", "assemble">>

IsPrefix(s, t) == Len(s) <= Len(t) /\ s = SubSeq(t, 1, Len(s))

Did(l, name) == \E i \in 1..Len(l.steps) : l.steps[i] = name

LastStep(l) == IF l.steps = <<>> THEN "" ELSE l.steps[Len(l.steps)]

Is2xx(status) == status \in 200..299

\* a well-formed http(s) URL string, judged on the text itself
GoodUrl(v) == v.t = "string" /\ v.s # <<>> /\ isURL(v.s)

\* the run ended inside the pipeline without a result
FailedInPipeline(l) == l.pc = "done" /\ l.steps # <<>> /\ LastStep(l) # "assemble"

MsgUnreachable == "Cannot access the specified image"
MsgNotAnImage == "URL does not point to a valid image"
MsgProvider == "Failed to enhance the image"
MsgInvalidResult == "Enhanced image URL is invalid"

\* C1: in the strict pipeline the steps happen in the order presence check,
\* trim + validation, reachability probe, provider call, result validation,
\* size probe, assembly; the call a run is suspended on is the one of its last
\* step; the probe is issued only for a present, trimmed, valid URL, the
\* provider is called only after a 2xx image probe, the size probe is issued
\* only for a valid provider URL; and a failed run returns no result.
C1_OrderedFailFast ==
  variant = "strict" =>
    \A r \in Runs :
      LET l == locals[r] IN
      /\ IsPrefix(l.steps, StepOrder)
      /\ l.call.kind = "head" => LastStep(l) \in {"reach_probe", "size_probe"}
      /\ l.call.kind = "remini" => LastStep(l) = "remini"
      /\ l.pc \in {"idle", "done"} => l.call = NoCall
      /\ Did(l, "reach_probe") =>
           /\ Truthy(l.url) /\ IsString(l.url)
           /\ l.sanitizedUrl = Str(trim(l.url.s))
           /\ GoodUrl(l.sanitizedUrl)
      /\ Did(l, "remini") =>
           /\ l.reach.settled = "resolved"
           /\ Is2xx(l.reach.status)
           /\ l.reach.ct # <<>> /\ l.reach.ct[1] = "image/"
      /\ Did(l, "size_probe") =>
           /\ l.provider.settled = "resolved"
           /\ GoodUrl(l.provider.value)
      /\ ~Did(l, "reach_probe") => l.reach = NoOutcome
      /\ ~Did(l, "remini") => l.provider = NotSettled
      /\ ~Did(l, "size_probe") => l.size = NoOutcome
      /\ l.thrown # NoError =>
           /\ l.pc = "done"
           /\ ~Did(l, "assemble")
           /\ l.returned = NoResult
           /\ l.response.body = NoResult

\* a strict run that left at the validation of the provider's result
C1_Witness ==
  /\ variant = "strict"
  /\ locals[1].pc = "done"
  /\ locals[1].thrown = Error(MsgInvalidResult)
  /\ locals[1].steps = SubSeq(StepOrder, 1, 5)

\* C2: in the strict pipeline a probe that succeeded with a 2xx status but
\* without an image/ content type fails the run with the NotAnImage failure,
\* which differs from the failure of a probe that itself failed.
C2_NotAnImageDistinct ==
  variant = "strict" =>
    \A r \in Runs :
      LET l == locals[r] IN
      (l.pc = "done" /\ l.reach.settled = "resolved"
         /\ ~StartsWithImage(l.reach.ct)) =>
        /\ l.thrown # NoError
        /\ l.thrown.message = MsgNotAnImage
        /\ l.thrown.message # MsgUnreachable

\* C3: when remini rejects with an error, the run fails as ProviderFailure and
\* the provider's message is retrievable from what the caller is handed.
C3_CauseRetrievable ==
  \A r \in Runs :
    LET l == locals[r] IN
    (l.provider.settled = "rejected" /\ l.provider.reason.name = "Error"
       /\ l.provider.reason.message # "") =>
      /\ l.pc = "done"
      /\ l.response.message = MsgProvider
      /\ l.provider.reason.message
           \in {l.thrown.message, l.response.message, l.response.details}

\* C4: once the provider returned a valid URL, a size probe that fails (network
\* error, timeout, too many redirects, unacceptable status) does not fail the
\* run: the answer is a success whose image_size is 'Unknown', with
\* original_url and image_data as they were.
C4_SizeProbeNeverFails ==
  \A r \in Runs :
    LET l == locals[r] IN
    l.size.settled = "rejected" =>
      /\ l.pc = "done"
      /\ l.thrown = NoError
      /\ l.response.status = 200
      /\ l.response.body.image_size = Str(Unknown)
      /\ l.response.body.image_data = l.provider.value
      /\ variant = "strict" =>
           /\ l.response.body.original_url = Str(trim(l.url.s))
           /\ l.returned = l.response.body

\* a strict run whose size probe ran into the redirect cap
C4_Witness ==
  /\ variant = "strict"
  /\ locals[1].pc = "done"
  /\ locals[1].size.code = "ERR_FR_TOO_MANY_REDIRECTS"
  /\ locals[1].response.body.image_size = Str(Unknown)

C6_NoCrossTalk ==
  \A r \in Runs :
    LET l == locals[r] IN
    /\ l.pc # "idle" => l.url = Str(Padded(InUrl(r)))
    /\ l.sanitizedUrl \in {Undefined, Str(InUrl(r))}
    /\ l.enhancedImageUrl \in {Undefined, Str(OutUrl(r))}
    /\ l.provider.value \in {Undefined, Str(OutUrl(r))}
    /\ l.pc = "reach_probe" => l.call.url = Str(InUrl(r))
    /\ l.pc = "remini" => l.call.url = Str(InUrl(r))
    /\ l.pc = "size_probe" => l.call.url = Str(OutUrl(r))
    /\ l.size.cl \in ServedLengths(Str(OutUrl(r)))
    /\ (l.pc = "done" /\ l.thrown = NoError) =>
         /\ l.returned = Result(Str(InUrl(r)), Str(OutUrl(r)),
                                Str(getFileSize(l.size)))
         /\ l.response = ResJson(l.returned)

\* run 1 has its result while run 2 is still suspended on its size probe
C6_Witness ==
  /\ locals[1].pc = "done"
  /\ locals[1].returned.image_data = Str(OutUrl(1))
  /\ locals[1].returned.image_size = Str(SizeLabel(Digits(204800)))
  /\ locals[2].pc = "size_probe"

\* C7 as stated: every accepted request eventually terminates.
C7_Original ==
  \A r \in Runs : (locals[r].pc # "idle") ~> (locals[r].pc = "done")

\* C7 amended: the two HEAD probes are bounded by the 5000 ms timeout and the
\* cap of 3 redirects, and running into either is that probe's failure, so a
\* reachability probe always ends in a failure exit or in the provider call
\* and a size probe always ends in the answer; the provider call has no bound:
\* an accepted request terminates if its provider call settles.
C7_Amended ==
  /\ [](\A r \in Runs :
          LET c == locals[r].call IN
          /\ locals[r].pc # "idle" =>
               locals[r].pc = "done" \/ c.kind \in {"head", "remini"}
          /\ c.kind = "head" =>
               /\ c.timeout = 5000 /\ c.maxRedirects = 3
               /\ c.elapsed < c.timeout /\ c.redirects <= c.maxRedirects
          /\ c.kind = "remini" => c.timeout = 0)
  /\ \A r \in Runs :
       /\ (locals[r].pc = "reach_probe") ~> (locals[r].pc \in {"done", "remini"})
       /\ (locals[r].pc = "size_probe") ~> (locals[r].pc = "done")

\* a reachability probe that ran into the timeout
C7_Witness ==
  /\ locals[1].pc = "done"
  /\ locals[1].reach.code = "ECONNABORTED"
  /\ locals[1].thrown = Error(MsgUnreachable)

\* C8: when remini resolves with an empty value or with something that is not
\* a valid URL, the run fails with 'Enhanced image URL is invalid', returns no
\* result and issues no size probe.
C8_InvalidProviderResult ==
  variant = "strict" =>
    \A r \in Runs :
      LET l == locals[r] IN
      (l.provider.settled = "resolved" /\ ~GoodUrl(l.provider.value)) =>
        /\ l.pc = "done"
        /\ l.thrown = Error(MsgInvalidResult)
        /\ l.response.status = 400
        /\ l.response.message = MsgInvalidResult
        /\ l.returned = NoResult /\ l.response.body = NoResult
        /\ ~Did(l, "size_probe") /\ l.size = NoOutcome

\* the provider answered with text that is not a URL
C8_Witness ==
  /\ variant = "strict"
  /\ locals[1].provider = Fulfilled(Str(NotAUrl))
  /\ locals[1].thrown = Error(MsgInvalidResult)

\* C9: in the strict pipeline the reachability probe lets the run go on only
\* on a 2xx status; any other status, 403 included, and any network error,
\* timeout or redirect overrun fail the run as unreachable before the provider
\* is called; the size probe accepts a 403 and labels its content-length.
C9_ReachOnly2xx ==
  variant = "strict" =>
    \A r \in Runs :
      LET l == locals[r] IN
      /\ Did(l, "remini") => Is2xx(l.reach.status)
      /\ (l.reach.settled # "none" /\ ~Is2xx(l.reach.status)) =>
           /\ l.reach.settled = "rejected"
           /\ l.pc = "done"
           /\ l.thrown = Error(MsgUnreachable)
           /\ ~Did(l, "remini") /\ l.provider = NotSettled
      /\ l.size.status = 403 =>
           /\ l.size.settled = "resolved"
           /\ l.response.status = 200
           /\ l.response.body.image_size = Str(SizeLabel(l.size.cl))

\* the reachability probe was answered with 403
C9_Witness ==
  /\ variant = "strict"
  /\ locals[1].pc = "done"
  /\ locals[1].reach.status = 403
  /\ locals[1].thrown = Error(MsgUnreachable)

\* C10: a fault inside the pipeline that is not a classified failure does not
\* cross the pipeline boundary raw: what enhanceImage throws is one of its own
\* errors, and no library message reaches the response.
C10_NoRawFault ==
  \A r \in Runs :
    LET l == locals[r] IN
    /\ l.thrown.name \in {"none", "Error"}
    /\ l.thrown # NoError =>
         l.thrown.message \in
           {"URL is required", "Invalid URL format or protocol",
            "Invalid URL format", MsgUnreachable, MsgNotAnImage, MsgProvider,
            MsgInvalidResult}
    /\ l.response.message # "Expected a string but received a number"
    /\ l.response.message # "Expected a string but received a array"
====
